---- MODULE Spec2Model ----
(***************************************************************************)
(* A model of the job analyzer of src/main.py (IntegratedJobAnalyzer and   *)
(* main) and src/config.py (Config).                                       *)
(*                                                                         *)
(* Conventions.  Python's None is the string None where a string is        *)
(* expected and the empty sequence where a record is expected.  A function *)
(* that can raise returns a record [exc, value]: exc = NoExc when it       *)
(* returns normally, the exception's class name when it raises.            *)
(***************************************************************************)
EXTENDS Integers, Sequences, FiniteSets, TLC

(***************************************************************************)
(* Bounds of the model.                                                    *)
(***************************************************************************)
\* listing elements on one rendered listings page
MaxListings == 1
\* entries of a key_matches / missing_skills array in an oracle answer
MaxSkills == 2
\* records in the input of remove_duplicates when it is checked on its own
MaxJobs == 3

(***************************************************************************)
(* Program constants.                                                      *)
(***************************************************************************)
\* Config.max_pages, default of MAX_PAGES (src/config.py:37)
max_pages == 2
\* extract_job_description(max_retries=3) (src/main.py:193)
max_retries == 3
\* Config.search_categories: the first two of DEFAULT_SEARCH_CATEGORIES
search_categories == <<"strategy", "project">>

None == "<None>"
NoExc == "<no exception>"
Sentinel == "Failed to fetch description"

Ok(value) == [exc |-> NoExc, value |-> value]
Raise(exc, value) == [exc |-> exc, value |-> value]

Range(s) == {s[i] : i \in 1..Len(s)}

\* all sequences over S of length at most n
SeqsUpTo(S, n) == UNION {[1..k -> S] : k \in 0..n}

(***************************************************************************)
(* Listing Harvester: extract_basic_job_info and scrape_page.              *)
(* A listing element is what the four CSS lookups find in it: each of      *)
(* title, url, company, location is the text found, or Missing when        *)
(* find_element raises NoSuchElementException.                             *)
(***************************************************************************)
Missing == "<no such element>"
\* the anchor of the title is there and has no href: get_attribute gives None
NoHref == "<no href>"

Element(title, company, location, url) ==
    [title |-> title, company |-> company, location |-> location, url |-> url]

Url1 == "https://www.arbeitnow.com/jobs/1"
Url2 == "https://www.arbeitnow.com/jobs/2"

WellFormedElements ==
    { Element("Data Analyst", "Acme", "Berlin", Url1),
      Element("Product Manager", "Initech", "Hamburg", Url2) }

\* the same posting as the first one, listed with other metadata
RelistedElement == Element("Senior Data Analyst", "Globex", "Munich", Url1)

MalformedElements ==
    { Element(Missing, "Acme", "Berlin", Url1),
      Element("Data Analyst", "Acme", "Berlin", Missing),
      Element("Data Analyst", Missing, "Berlin", Url1),
      Element("Data Analyst", "Acme", Missing, Url1) }

\* a listing whose title anchor has no href attribute
HreflessElement == Element("Data Analyst", "Acme", "Berlin", NoHref)

\* src/main.py:228-256.  <<>> models the None of the except branch.
extract_basic_job_info(job_element, search_category) ==
    IF \/ job_element.title = Missing
       \/ job_element.url = Missing
       \/ job_element.company = Missing
       \/ job_element.location = Missing
    THEN <<>>
    ELSE << [search_category |-> search_category,
             title |-> job_element.title,
             company |-> job_element.company,
             location |-> job_element.location,
             url |-> IF job_element.url = NoHref THEN None ELSE job_element.url,
             description |-> None] >>

RECURSIVE scrape_loop(_, _, _)
\* src/main.py:280-285: the loop over job_listings
scrape_loop(job_listings, search_category, page_jobs) ==
    IF job_listings = <<>> THEN page_jobs
    ELSE LET job_info == extract_basic_job_info(Head(job_listings), search_category)
         IN  scrape_loop(Tail(job_listings), search_category,
                         IF Len(job_info) > 0 THEN page_jobs \o job_info ELSE page_jobs)

\* A rendering of a listings page: driver.get raised, or the elements found.
Rendered(failed, listings) == [failed |-> failed, listings |-> listings]

\* a plausible slip: no except clause, a failed render reaches the caller
scrape_page_uncaught(page_number, search_category, rendered) ==
    IF rendered.failed THEN Raise("WebDriverException", <<>>)
    ELSE Ok(scrape_loop(rendered.listings, search_category, <<>>))

\* src/main.py:258-292.  The except branch returns [].
scrape_page(page_number, search_category, rendered) ==
    IF rendered.failed THEN Ok(<<>>)
    ELSE Ok(scrape_loop(rendered.listings, search_category, <<>>))

(***************************************************************************)
(* Deduplicator: remove_duplicates.                                        *)
(***************************************************************************)
RECURSIVE dedupe_loop(_, _, _)
\* src/main.py:299-302: the loop over jobs, with its two accumulators
dedupe_loop(jobs, unique_jobs, seen_urls) ==
    IF jobs = <<>> THEN unique_jobs
    ELSE LET job == Head(jobs)
         IN  IF job.url \notin seen_urls
             THEN dedupe_loop(Tail(jobs), Append(unique_jobs, job), seen_urls \cup {job.url})
             ELSE dedupe_loop(Tail(jobs), unique_jobs, seen_urls)

\* a plausible slip: the membership test is dropped, every record is kept
remove_duplicates_keep_all(jobs) == jobs

RECURSIVE dedupe_last_loop(_, _)
dedupe_last_loop(jobs, unique_jobs) ==
    IF jobs = <<>> THEN unique_jobs
    ELSE LET job == Head(jobs)
         IN  dedupe_last_loop(Tail(jobs),
                 Append(SelectSeq(unique_jobs, LAMBDA j : j.url # job.url), job))

\* a plausible slip: the loop starts at the second record (jobs[1:])
remove_duplicates_skip_first(jobs) ==
    IF jobs = <<>> THEN <<>> ELSE dedupe_loop(Tail(jobs), <<>>, {})

\* a plausible slip: a later record with a seen URL replaces the earlier one
remove_duplicates_keep_last(jobs) == dedupe_last_loop(jobs, <<>>)

\* src/main.py:294-305
remove_duplicates(jobs) == dedupe_loop(jobs, <<>>, {})

(***************************************************************************)
(* Match Analyzer: the oracle's answer, json.loads and analyze_with_gpt.   *)
(*                                                                         *)
(* A JSON value is [t, n, s, a]: t is its kind ("num", "str", "arr", a     *)
(* list of strings, "mixed", a list holding a non-string, "null"), and     *)
(* n, s, a hold the number, the string or the list.                        *)
(***************************************************************************)
JNum(n) == [t |-> "num", n |-> n, s |-> "", a |-> <<>>]
JStr(s) == [t |-> "str", n |-> 0, s |-> s, a |-> <<>>]
JArr(a) == [t |-> "arr", n |-> 0, s |-> "", a |-> a]
JMixed == [t |-> "mixed", n |-> 0, s |-> "", a |-> <<>>]
JNull == [t |-> "null", n |-> 0, s |-> "", a |-> <<>>]

\* src/main.py:152-153
required_fields ==
    <<"match_score", "german_required", "key_matches", "missing_skills", "recommendation">>

\* A JSON document: kind "object" with the set of keys present (a key that is
\* not present holds JNull), or "array", "number", "text" for the other
\* documents json.loads accepts.
Doc(kind, present, ms, gr, km, sk, rec) ==
    [kind |-> kind, present |-> present, match_score |-> ms, german_required |-> gr,
     key_matches |-> km, missing_skills |-> sk, recommendation |-> rec]

Object(ms, gr, km, sk, rec) == Doc("object", Range(required_fields), ms, gr, km, sk, rec)
NoDoc == Doc("none", {}, JNull, JNull, JNull, JNull, JNull)

\* result[field] of an object
Get(result, field) ==
    CASE field = "match_score" -> result.match_score
      [] field = "german_required" -> result.german_required
      [] field = "key_matches" -> result.key_matches
      [] field = "missing_skills" -> result.missing_skills
      [] field = "recommendation" -> result.recommendation

\* the object without one key
Without(result, field) ==
    [[result EXCEPT !.present = @ \ {field}] EXCEPT ![field] = JNull]

\* The text of an answer is a sequence of tokens: the opening fence (three
\* backticks and json), a bare fence (three backticks), white space, other text, or the text of one JSON document.
Tok(tok, doc) == [tok |-> tok, doc |-> doc]
FenceJson == Tok("fence_json", NoDoc)
Fence == Tok("fence", NoDoc)
Ws == Tok("ws", NoDoc)
Junk == Tok("junk", NoDoc)
Json(doc) == Tok("json", doc)

RECURSIVE lstrip(_)
lstrip(text) == IF text # <<>> /\ Head(text) = Ws THEN lstrip(Tail(text)) ELSE text

RECURSIVE rstrip(_)
rstrip(text) ==
    IF text # <<>> /\ text[Len(text)] = Ws THEN rstrip(SubSeq(text, 1, Len(text) - 1)) ELSE text

\* str.strip()
strip(text) == rstrip(lstrip(text))

\* json.loads: white space around the document is accepted, anything else is not
json_loads(text) ==
    LET t == strip(text)
    IN  IF Len(t) = 1 /\ t[1].tok = "json" THEN Ok(t[1].doc)
        ELSE Raise("JSONDecodeError", NoDoc)

\* src/main.py:144-149: the recovery from a fenced answer
clean_response(response_text) ==
    LET c0 == strip(response_text)
        c1 == IF c0 # <<>> /\ Head(c0) = FenceJson THEN Tail(c0) ELSE c0
        c2 == IF c1 # <<>> /\ c1[Len(c1)] = Fence THEN SubSeq(c1, 1, Len(c1) - 1) ELSE c1
    IN  strip(c2)

\* a plausible slip: the recovery is left out
parse_response_no_recovery(response_text) == json_loads(response_text)

\* src/main.py:141-150
parse_response(response_text) ==
    LET first == json_loads(response_text)
    IN  IF first.exc = NoExc THEN first ELSE json_loads(clean_response(response_text))

RECURSIVE join_comma(_)
\* a plausible slip: the separator is ", "
join_comma(a) ==
    IF a = <<>> THEN ""
    ELSE IF Len(a) = 1 THEN a[1]
    ELSE a[1] \o ", " \o join_comma(Tail(a))

RECURSIVE join(_)
\* '; '.join(list of str)
join(a) ==
    IF a = <<>> THEN ""
    ELSE IF Len(a) = 1 THEN a[1]
    ELSE a[1] \o "; " \o join(Tail(a))

\* '; '.join(value): a list of strings is joined, any other value modelled
\* here is not an iterable of strings and raises TypeError
join_field(value) ==
    IF value.t = "arr" THEN Ok(join(value.a)) ELSE Raise("TypeError", "")

\* a plausible slip: the presence of the last field is not checked
fields_checked_short == SubSeq(required_fields, 1, Len(required_fields) - 1)

\* the fields the loop of src/main.py:154-156 looks for
fields_checked == required_fields

\* src/main.py:152-156: an object lacking a field raises ValueError; for a
\* document that is not an object, the test field not in result is true (a list) or
\* raises TypeError (a number), or the later result[...] raises TypeError (a string)
validate(result) ==
    IF result.kind = "array" THEN "ValueError"
    ELSE IF result.kind # "object" THEN "TypeError"
    ELSE IF \E i \in 1..Len(fields_checked) : fields_checked[i] \notin result.present
         THEN "ValueError"
    ELSE NoExc

\* The oracle's behaviour on one call: it raises, or it returns a message whose
\* content is None, or one whose content is a text.
OracleRaises == [raises |-> TRUE, has_content |-> FALSE, content |-> <<>>]
OracleNoContent == [raises |-> FALSE, has_content |-> FALSE, content |-> <<>>]
OracleSays(text) == [raises |-> FALSE, has_content |-> TRUE, content |-> text]

\* src/main.py:178-191
create_fallback_analysis(job_data) ==
    [search_category |-> job_data.search_category,
     title |-> job_data.title,
     company |-> job_data.company,
     location |-> job_data.location,
     url |-> job_data.url,
     match_score |-> JNum(0),
     german_required |-> JStr("No"),
     key_matches |-> "Analysis failed",
     missing_skills |-> "Analysis failed",
     recommendation |-> JStr("Analysis failed - please review manually")]

\* src/main.py:92-172: the body of the try block; value is the analyzed job
analyze_try(job_data, oracle) ==
    IF oracle.raises THEN Raise("APIError", <<>>)
    ELSE IF ~oracle.has_content THEN Raise("AttributeError", <<>>)
    ELSE LET parsed == parse_response(strip(oracle.content))
             result == parsed.value
             key_matches == join_field(result.key_matches)
             missing_skills == join_field(result.missing_skills)
         IN  IF parsed.exc # NoExc THEN Raise(parsed.exc, <<>>)
             ELSE IF validate(result) # NoExc THEN Raise(validate(result), <<>>)
             ELSE IF key_matches.exc # NoExc THEN Raise(key_matches.exc, <<>>)
             ELSE IF missing_skills.exc # NoExc THEN Raise(missing_skills.exc, <<>>)
             ELSE Ok(<< [search_category |-> job_data.search_category,
                         title |-> job_data.title,
                         company |-> job_data.company,
                         location |-> job_data.location,
                         url |-> job_data.url,
                         match_score |-> result.match_score,
                         german_required |-> result.german_required,
                         key_matches |-> key_matches.value,
                         missing_skills |-> missing_skills.value,
                         recommendation |-> result.recommendation] >>)

\* a plausible slip: no except clause, the exception reaches the caller
analyze_with_gpt_uncaught(job_data, oracle) == analyze_try(job_data, oracle)

\* src/main.py:82-176: value is <<analyzed_job>>
analyze_with_gpt(job_data, oracle) ==
    LET tried == analyze_try(job_data, oracle)
    IN  IF tried.exc # NoExc THEN Ok(<<create_fallback_analysis(job_data)>>) ELSE tried

(***************************************************************************)
(* Description Fetcher: one pass of the retry loop of                      *)
(* extract_job_description.  The outcome of a render attempt is Failed     *)
(* (driver.get, the wait or the parse raised) or the text extracted.       *)
(***************************************************************************)
Failed == "<attempt raised>"
Descriptions == {"", "We are hiring"}
AttemptOutcomes == {Failed} \cup Descriptions

Continue == [returns |-> FALSE, value |-> None]
Return(value) == [returns |-> TRUE, value |-> value]

\* a plausible slip: the last attempt is taken to be number max_retries
after_attempt_one_more(attempt, outcome) ==
    IF outcome # Failed THEN Return(outcome)
    ELSE IF attempt = max_retries THEN Return(Sentinel)
    ELSE Continue

\* a plausible slip: a failed attempt returns the sentinel at once
after_attempt_no_retry(attempt, outcome) ==
    IF outcome # Failed THEN Return(outcome) ELSE Return(Sentinel)

\* a plausible slip: the last pass gives up before looking at its outcome
after_attempt_last_gives_up(attempt, outcome) ==
    IF attempt = max_retries - 1 THEN Return(Sentinel)
    ELSE IF outcome # Failed THEN Return(outcome)
    ELSE Continue

\* src/main.py:205-226: the body of the loop for attempt number `attempt'
\* (0-based): it returns a value, or goes on to time.sleep and the next pass
after_attempt(attempt, outcome) ==
    IF outcome # Failed THEN Return(outcome)
    ELSE IF attempt = max_retries - 1 THEN Return(Sentinel)
    ELSE Continue

(***************************************************************************)
(* Pipeline Orchestrator: the decisions of process_jobs.                   *)
(***************************************************************************)
\* a plausible slip: only None skips the job
skips_job_none_only(value) == value = None

\* a plausible slip: the failure sentinel skips the job too
skips_job_sentinel_too(value) == value = "" \/ value = None \/ value = Sentinel

\* src/main.py:340: `if not description'
skips_job(value) == value = "" \/ value = None

\* a plausible slip: one page too many (range(1, max_pages + 2))
more_pages_one_more(p) == p < max_pages + 1

\* src/main.py:317: range(1, max_pages + 1) has a page after page p
more_pages(p) == p < max_pages

\* a plausible slip: the sequence number starts at 0
save_rows_from_zero(jobs) == [k \in 1..Len(jobs) |-> [S_No |-> k - 1, job |-> jobs[k]]]

\* src/main.py:358-359: the data frame with its S.No column
save_rows(jobs) == [k \in 1..Len(jobs) |-> [S_No |-> k, job |-> jobs[k]]]

\* a plausible slip: the report is written whatever analyzed_jobs holds
writes_report_always(jobs) == TRUE

\* src/main.py:357: `if analyzed_jobs'
writes_report(jobs) == jobs # <<>>

(***************************************************************************)
(* The inputs of a run.                                                    *)
(***************************************************************************)
\* the listing elements a page of a run is built from
PipelineElements ==
    WellFormedElements \cup {Element("Data Analyst", Missing, "Berlin", Url1)}

Renderings ==
    {Rendered(TRUE, <<>>)} \cup
    {Rendered(FALSE, l) : l \in SeqsUpTo(PipelineElements, MaxListings)}

GoodAnswer ==
    Object(JNum(85), JStr("Yes"), JArr(<<"python", "sql">>), JArr(<<"german">>),
           JStr("Apply"))

\* an answer in the asked format whose values are outside the asked ranges
WildAnswer ==
    Object(JNum(150), JStr("Maybe"), JArr(<<"python">>), JArr(<<>>), JStr("Apply"))

\* the oracle's behaviours drawn in a run: one for each record a call can end
\* in (the fallback, an answer's values in range, an answer's values out of range)
PipelineOracle ==
    { OracleRaises,
      OracleSays(<<FenceJson, Ws, Json(GoodAnswer), Ws, Fence>>),
      OracleSays(<<Json(WildAnswer)>>) }

(***************************************************************************)
(* The state of a run of main().                                           *)
(***************************************************************************)
VARIABLES
    credential,      \* environment: OPENAI_API_KEY is set (src/config.py:19)
    resume_exists,   \* environment: the resume file exists (src/config.py:25)
    pc,              \* the position of the run in main / process_jobs
    driver,          \* the browser handle: "none", "held" or "released"
    browser_page,    \* the listing elements of the page the browser shows
    fatal_at,        \* where an exception left process_jobs or the start-up, or ""
    category_index,  \* the loop variable of src/main.py:312, as an index
    page,            \* the loop variable of src/main.py:317
    all_jobs,        \* src/main.py:309
    unique_jobs,     \* src/main.py:328
    job_index,       \* the loop variable i of src/main.py:334
    attempt,         \* the loop variable of src/main.py:204
    description,     \* the value last returned by extract_job_description
    analyzed_jobs,   \* src/main.py:332
    report,          \* the rows of the CSV file written, <<>> if none was
    reports_written, \* how many times to_csv has written the file
    summaries,       \* how many times the summary has been printed
    requests,        \* history: the listing pages requested, in order
    dedupe_calls,    \* history: the calls of remove_duplicates
    tries,           \* history: the outcomes of the attempts of the current
                     \* call of extract_job_description
    sleeps,          \* history: the backoff waits of that call
    fetched,         \* history: the values extract_job_description returned
    oracle_log,      \* history: the job records handed to analyze_with_gpt
    oracle_answer    \* history: how the oracle behaved on the last call

vars ==
    << credential, resume_exists, pc, driver, browser_page, fatal_at, category_index,
       page, all_jobs, unique_jobs, job_index,
       attempt, description, analyzed_jobs, report, reports_written, summaries,
       requests, dedupe_calls, tries, sleeps, fetched, oracle_log, oracle_answer >>

env_vars == << credential, resume_exists >>
harvest_vars == << category_index, page, all_jobs, requests >>
job_vars == << job_index, attempt, description, tries, sleeps, fetched >>
report_vars == << report, reports_written, summaries >>

Init ==
    /\ credential \in BOOLEAN
    /\ resume_exists \in BOOLEAN
    /\ pc = "start"
    /\ driver = "none"
    /\ browser_page = Rendered(FALSE, <<>>)
    /\ fatal_at = ""
    /\ category_index = 1
    /\ page = 1
    /\ all_jobs = <<>>
    /\ unique_jobs = <<>>
    /\ job_index = 0
    /\ attempt = 0
    /\ description = None
    /\ analyzed_jobs = <<>>
    /\ report = <<>>
    /\ reports_written = 0
    /\ summaries = 0
    /\ requests = <<>>
    /\ dedupe_calls = 0
    /\ tries = <<>>
    /\ sleeps = 0
    /\ fetched = <<>>
    /\ oracle_log = <<>>
    /\ oracle_answer = OracleNoContent

\* a plausible slip: the check of the credential is left out
config_error_resume_only(has_credential, has_resume) ==
    IF ~has_resume THEN "FileNotFoundError" ELSE NoExc

\* src/config.py:18-27: Config() raises when OPENAI_API_KEY is not set, and
\* when the resume file does not exist
config_error(has_credential, has_resume) ==
    IF ~has_credential THEN "ValueError"
    ELSE IF ~has_resume THEN "FileNotFoundError"
    ELSE NoExc

\* What IntegratedJobAnalyzer.__init__ can do (src/main.py:44-59, 71-80): the
\* client or the reading of the resume raises, or the browser cannot be
\* started, or the object is built and holds the browser handle.
InitOutcomes == {"ok", "client error", "resume unreadable", "driver error"}

\* src/main.py:44-59, 71-80: the constructor makes the client, then opens the
\* resume file, which raises when the file does not exist, then starts the
\* browser
init_outcome(has_resume, outcome) ==
    IF outcome = "client error" THEN outcome
    ELSE IF ~has_resume THEN "resume unreadable"
    ELSE outcome

\* src/main.py:414-423: Config(), IntegratedJobAnalyzer(config), and the except
\* clause when one of them raises
Startup ==
    /\ pc = "start"
    /\ \E outcome \in InitOutcomes :
          IF /\ config_error(credential, resume_exists) = NoExc
             /\ init_outcome(resume_exists, outcome) = "ok"
          THEN /\ driver' = "held"
               /\ pc' = "harvest"
               /\ UNCHANGED fatal_at
          ELSE /\ pc' = "fatal"
               /\ fatal_at' = "startup"
               /\ UNCHANGED driver
    /\ UNCHANGED << env_vars, browser_page, harvest_vars, unique_jobs, job_vars,
                    analyzed_jobs, report_vars, dedupe_calls, oracle_log,
                    oracle_answer >>

\* a plausible slip: the loop goes on after an empty page
stops_category_never(page_jobs) == FALSE

\* a plausible slip: the break is taken when the page brought no URL that was
\* not harvested before
stops_category_no_new_url(page_jobs) ==
    \A k \in 1..Len(page_jobs) :
        \E n \in 1..Len(all_jobs) : all_jobs[n].url = page_jobs[k].url

\* src/main.py:320-321: `if not page_jobs: break'
stops_category(page_jobs) == page_jobs = <<>>

\* src/main.py:312-324: one pass of the inner loop, the call of scrape_page
\* included, with the browser showing one of Pages; an exception of
\* scrape_page would leave process_jobs
ScrapePageWith(Pages) ==
    /\ pc = "harvest"
    /\ \E rendered \in Pages :
          LET category == search_categories[category_index]
              scraped == scrape_page(page, category, rendered)
              page_jobs == scraped.value
              next_category ==
                  IF category_index = Len(search_categories)
                  THEN /\ pc' = "dedupe"
                       /\ UNCHANGED << category_index, page >>
                  ELSE /\ pc' = "harvest"
                       /\ category_index' = category_index + 1
                       /\ page' = 1
          IN  /\ browser_page' = rendered
              /\ requests' = Append(requests,
                     [category |-> category, page |-> page, failed |-> rendered.failed,
                      found |-> Len(page_jobs)])
              /\ IF scraped.exc # NoExc
                 THEN /\ pc' = "fatal"
                      /\ fatal_at' = "harvest"
                      /\ UNCHANGED << category_index, page, all_jobs >>
                 ELSE /\ UNCHANGED fatal_at
                      /\ IF stops_category(page_jobs)
                         THEN /\ next_category
                              /\ UNCHANGED all_jobs
                         ELSE /\ all_jobs' = all_jobs \o page_jobs
                              /\ IF more_pages(page)
                                 THEN /\ pc' = "harvest"
                                      /\ page' = page + 1
                                      /\ UNCHANGED category_index
                                 ELSE next_category
    /\ UNCHANGED << env_vars, driver, unique_jobs, job_vars, analyzed_jobs,
                    report_vars, dedupe_calls, oracle_log, oracle_answer >>

ScrapePage == ScrapePageWith(Renderings)

\* src/main.py:334: the loop of the second pass takes its first job, or is over
FirstJob(jobs) ==
    IF jobs = <<>>
    THEN /\ pc' = "report"
         /\ job_index' = 1
    ELSE /\ pc' = "fetch"
         /\ job_index' = 1

\* a plausible slip: the lines from 326 on are indented into the loop over the
\* categories, so the duplicates are removed and the second pass is run when a
\* category is done
DedupeInLoop ==
    /\ \/ pc = "dedupe"
       \/ pc = "harvest" /\ page = 1 /\ category_index > 1
    /\ unique_jobs' = remove_duplicates(all_jobs)
    /\ dedupe_calls' = dedupe_calls + 1
    /\ FirstJob(unique_jobs')
    /\ attempt' = 0
    /\ tries' = <<>>
    /\ sleeps' = 0
    /\ UNCHANGED << env_vars, browser_page, driver, fatal_at, harvest_vars, description,
                    fetched, analyzed_jobs, report_vars, oracle_log, oracle_answer >>

\* src/main.py:326-334
Dedupe ==
    /\ pc = "dedupe"
    /\ unique_jobs' = remove_duplicates(all_jobs)
    /\ dedupe_calls' = dedupe_calls + 1
    /\ FirstJob(unique_jobs')
    /\ attempt' = 0
    /\ tries' = <<>>
    /\ sleeps' = 0
    /\ UNCHANGED << env_vars, browser_page, driver, fatal_at, harvest_vars,
                    description, fetched, analyzed_jobs, report_vars, oracle_log,
                    oracle_answer >>

\* src/main.py:334: the loop goes on to the next unique job, or is over
NextJob ==
    /\ job_index' = job_index + 1
    /\ attempt' = 0
    /\ tries' = <<>>
    /\ sleeps' = 0
    /\ pc' = IF job_index < Len(unique_jobs) THEN "fetch" ELSE "report"

\* src/main.py:205-225: one render attempt of extract_job_description, up to
\* its return or to the call of time.sleep, with the outcome drawn from
\* Outcomes; the browser leaves the listings page, and a job page has no
\* listing elements
FetchAttemptWith(Outcomes) ==
    /\ pc = "fetch"
    /\ browser_page' = Rendered(FALSE, <<>>)
    /\ \E outcome \in Outcomes :
          LET step == after_attempt(attempt, outcome)
          IN  /\ tries' = Append(tries, outcome)
              /\ IF step.returns
                 THEN /\ description' = step.value
                      /\ fetched' = Append(fetched, step.value)
                      /\ pc' = "fetched"
                 ELSE /\ pc' = "backoff"
                      /\ UNCHANGED << description, fetched >>
    /\ UNCHANGED << env_vars, driver, fatal_at, harvest_vars, unique_jobs, job_index,
                    attempt, sleeps, analyzed_jobs, report_vars, dedupe_calls,
                    oracle_log, oracle_answer >>

FetchAttempt == FetchAttemptWith(AttemptOutcomes)

\* src/main.py:226 and 204: time.sleep, then the next pass of the loop; a loop
\* that runs out of passes makes the function return None
Backoff ==
    /\ pc = "backoff"
    /\ sleeps' = sleeps + 1
    /\ attempt' = attempt + 1
    /\ IF attempt + 1 < max_retries
       THEN /\ pc' = "fetch"
            /\ UNCHANGED << description, fetched >>
       ELSE /\ pc' = "fetched"
            /\ description' = None
            /\ fetched' = Append(fetched, None)
    /\ UNCHANGED << env_vars, browser_page, driver, fatal_at, harvest_vars,
                    unique_jobs, job_index, tries, analyzed_jobs, report_vars,
                    dedupe_calls, oracle_log, oracle_answer >>

\* src/main.py:339-343: the value returned skips the job or becomes its description
ProcessDescription ==
    /\ pc = "fetched"
    /\ IF skips_job(description)
       THEN /\ NextJob
            /\ UNCHANGED unique_jobs
       ELSE /\ unique_jobs' = [unique_jobs EXCEPT ![job_index].description = description]
            /\ pc' = "analyze"
            /\ tries' = <<>>
            /\ sleeps' = 0
            /\ UNCHANGED << job_index, attempt >>
    /\ UNCHANGED << env_vars, browser_page, driver, fatal_at, harvest_vars,
                    description, fetched, analyzed_jobs, report_vars, dedupe_calls,
                    oracle_log, oracle_answer >>

\* src/main.py:345-354: the call of analyze_with_gpt with the oracle behaving in
\* one of the ways of Oracles, the append, and the except clause of the loop
AnalyzeWith(Oracles) ==
    /\ pc = "analyze"
    /\ \E oracle \in Oracles :
          LET job == unique_jobs[job_index]
              analyzed == analyze_with_gpt(job, oracle)
          IN  /\ oracle_log' = Append(oracle_log, job)
              /\ oracle_answer' = oracle
              /\ analyzed_jobs' =
                     IF analyzed.exc = NoExc /\ analyzed.value # <<>>
                     THEN analyzed_jobs \o analyzed.value
                     ELSE analyzed_jobs
    /\ NextJob
    /\ UNCHANGED << env_vars, browser_page, driver, fatal_at, harvest_vars,
                    unique_jobs, description, fetched, report_vars, dedupe_calls >>

Analyze == AnalyzeWith(PipelineOracle)

\* src/main.py:356-379: the report and the summaries; to_csv can raise, and
\* nothing in process_jobs catches it
SaveResults ==
    /\ pc = "report"
    /\ IF writes_report(analyzed_jobs)
       THEN \E written \in BOOLEAN :
               IF written
               THEN /\ report' = save_rows(analyzed_jobs)
                    /\ reports_written' = reports_written + 1
                    /\ summaries' = summaries + 1
                    /\ pc' = "returned"
                    /\ UNCHANGED fatal_at
               ELSE /\ pc' = "fatal"
                    /\ fatal_at' = "save"
                    /\ UNCHANGED report_vars
       ELSE /\ pc' = "returned"
            /\ UNCHANGED << fatal_at, report_vars >>
    /\ UNCHANGED << env_vars, browser_page, driver, harvest_vars, unique_jobs,
                    job_vars, analyzed_jobs, dedupe_calls, oracle_log, oracle_answer >>

\* a plausible slip: the handle is released at the end of the try block only
finally_quits_after_success(fatal) == fatal = ""

\* src/main.py:424-426: the finally clause quits the driver when the name
\* analyzer is bound, that is, when the constructor returned
finally_quits(fatal) == fatal # "startup"

\* src/main.py:421-426: the except and finally clauses of main
Finally ==
    /\ pc \in {"returned", "fatal"}
    /\ pc' = "exit"
    /\ driver' = IF finally_quits(fatal_at) THEN "released" ELSE driver
    /\ UNCHANGED << env_vars, browser_page, fatal_at, harvest_vars, unique_jobs,
                    job_vars, analyzed_jobs, report_vars, dedupe_calls, oracle_log,
                    oracle_answer >>

Next ==
    \/ Startup
    \/ ScrapePage
    \/ Dedupe
    \/ FetchAttempt
    \/ Backoff
    \/ ProcessDescription
    \/ Analyze
    \/ SaveResults
    \/ Finally

\* a run of main()
Spec == Init /\ [][Next]_vars

(***************************************************************************)
(* remove_duplicates on its own: the run is at its call (src/main.py:328)  *)
(* with all_jobs any list the first pass can have collected; the histories *)
(* of the first pass are left empty.                                       *)
(***************************************************************************)
JobRecords ==
    { extract_basic_job_info(e, c)[1] :
          e \in WellFormedElements \cup {RelistedElement}, c \in Range(search_categories) }

CategoryIndex(c) == CHOOSE k \in 1..Len(search_categories) : search_categories[k] = c

\* the first pass appends category after category
CategoryOrdered(jobs) ==
    \A m, n \in 1..Len(jobs) :
        m < n => CategoryIndex(jobs[m].search_category) <= CategoryIndex(jobs[n].search_category)

DedupeInputs == {jobs \in SeqsUpTo(JobRecords, MaxJobs) : CategoryOrdered(jobs)}

InitDedupe ==
    /\ browser_page = Rendered(FALSE, <<>>)
    /\ credential = TRUE
    /\ resume_exists = TRUE
    /\ pc = "dedupe"
    /\ driver = "held"
    /\ fatal_at = ""
    /\ category_index = Len(search_categories)
    /\ page = 1
    /\ all_jobs \in DedupeInputs
    /\ unique_jobs = <<>>
    /\ job_index = 0
    /\ attempt = 0
    /\ description = None
    /\ analyzed_jobs = <<>>
    /\ report = <<>>
    /\ reports_written = 0
    /\ summaries = 0
    /\ requests = <<>>
    /\ dedupe_calls = 0
    /\ tries = <<>>
    /\ sleeps = 0
    /\ fetched = <<>>
    /\ oracle_log = <<>>
    /\ oracle_answer = OracleNoContent

SpecDedupe == InitDedupe /\ [][Dedupe]_vars

(***************************************************************************)
(* scrape_page on its own: every page of up to MaxElements listing elements, *)
(* well-formed, malformed or without href, under every category and page    *)
(* number, as the first page request of a run.                             *)
(***************************************************************************)
MaxElements == 3

ScrapeElements ==
    WellFormedElements \cup MalformedElements \cup {RelistedElement, HreflessElement}

ScrapePages ==
    {Rendered(TRUE, <<>>)} \cup
    {Rendered(FALSE, l) : l \in SeqsUpTo(ScrapeElements, MaxElements)}

InitScrape ==
    /\ credential = TRUE
    /\ resume_exists = TRUE
    /\ pc = "harvest"
    /\ driver = "held"
    /\ browser_page = Rendered(FALSE, <<>>)
    /\ fatal_at = ""
    /\ category_index \in 1..Len(search_categories)
    /\ page \in 1..max_pages
    /\ all_jobs = <<>>
    /\ unique_jobs = <<>>
    /\ job_index = 0
    /\ attempt = 0
    /\ description = None
    /\ analyzed_jobs = <<>>
    /\ report = <<>>
    /\ reports_written = 0
    /\ summaries = 0
    /\ requests = <<>>
    /\ dedupe_calls = 0
    /\ tries = <<>>
    /\ sleeps = 0
    /\ fetched = <<>>
    /\ oracle_log = <<>>
    /\ oracle_answer = OracleNoContent

ScrapeAny == requests = <<>> /\ ScrapePageWith(ScrapePages)

SpecScrape == InitScrape /\ [][ScrapeAny]_vars

(***************************************************************************)
(* Runs of main over pages on which a posting is listed again with other   *)
(* metadata.                                                               *)
(***************************************************************************)
RelistedElements == WellFormedElements \cup {RelistedElement}

RelistedPages ==
    {Rendered(TRUE, <<>>)} \cup
    {Rendered(FALSE, l) : l \in SeqsUpTo(RelistedElements, MaxListings)}

RelistedOracle == {OracleRaises, OracleSays(<<Json(GoodAnswer)>>)}

\* every description page renders at the first attempt
RenderedOutcomes == Descriptions

InitRelisted == Init /\ credential /\ resume_exists

NextRelisted ==
    \/ Startup
    \/ ScrapePageWith(RelistedPages)
    \/ Dedupe
    \/ FetchAttemptWith(RenderedOutcomes)
    \/ ProcessDescription
    \/ AnalyzeWith(RelistedOracle)
    \/ SaveResults
    \/ Finally

SpecRelisted == InitRelisted /\ [][NextRelisted]_vars

(***************************************************************************)
(* analyze_with_gpt on its own: the run is at its call (src/main.py:346)   *)
(* for the only unique job, whose description has been fetched; the oracle *)
(* behaves in any of the ways of AllOracle.                                *)
(***************************************************************************)
Scores == {JNum(0), JNum(100), JNum(101), JNum(-1), JStr("85")}
Germans == {JStr("Yes"), JStr("No"), JStr("Maybe")}
KeyMatches == {JArr(a) : a \in SeqsUpTo({"python", "sql"}, MaxSkills)} \cup {JMixed, JNull, JNum(3)}
MissingSkills == {JArr(<<>>), JArr(<<"german">>), JNull}
Recommendations == {JStr("Apply"), JNull}

\* the objects with all five keys: GoodAnswer with one value replaced
FullObjects ==
    {[GoodAnswer EXCEPT !.match_score = v] : v \in Scores}
    \cup {[GoodAnswer EXCEPT !.german_required = v] : v \in Germans}
    \cup {[GoodAnswer EXCEPT !.key_matches = v] : v \in KeyMatches}
    \cup {[GoodAnswer EXCEPT !.missing_skills = v] : v \in MissingSkills}
    \cup {[GoodAnswer EXCEPT !.recommendation = v] : v \in Recommendations}

RECURSIVE WithoutAll(_, _)
WithoutAll(result, fields) ==
    IF fields = {} THEN result
    ELSE LET f == CHOOSE f \in fields : TRUE
         IN  WithoutAll(Without(result, f), fields \ {f})

PartialObjects ==
    { WithoutAll(GoodAnswer, fields) : fields \in SUBSET Range(required_fields) \ {{}} }

OtherDocs ==
    { Doc(kind, {}, JNull, JNull, JNull, JNull, JNull) : kind \in {"array", "number", "text"} }

Docs == FullObjects \cup PartialObjects \cup OtherDocs \cup {GoodAnswer, WildAnswer}

\* the texts a document comes in
Texts(doc) ==
    { <<Json(doc)>>,
      <<Ws, Json(doc), Ws>>,
      <<FenceJson, Ws, Json(doc), Ws, Fence>>,
      <<FenceJson, Json(doc), Fence>>,
      <<FenceJson, Ws, Json(doc)>>,
      <<Json(doc), Ws, Fence>>,
      <<Fence, Ws, Json(doc), Ws, Fence>>,
      <<Junk, Ws, Json(doc)>>,
      <<FenceJson, Ws, Json(doc), Ws, Fence, Ws, Junk>> }

AllOracle ==
    {OracleRaises, OracleNoContent, OracleSays(<<>>), OracleSays(<<Junk>>)}
    \cup {OracleSays(text) : text \in UNION {Texts(doc) : doc \in Docs}}

AnalyzeInputs ==
    { [job EXCEPT !.description = d] :
          job \in {extract_basic_job_info(e, search_categories[1])[1] : e \in WellFormedElements},
          d \in {"We are hiring", Sentinel} }

InitAnalyze ==
    /\ browser_page = Rendered(FALSE, <<>>)
    /\ credential = TRUE
    /\ resume_exists = TRUE
    /\ pc = "analyze"
    /\ driver = "held"
    /\ fatal_at = ""
    /\ category_index = Len(search_categories)
    /\ page = 1
    /\ unique_jobs \in {<<job>> : job \in AnalyzeInputs}
    /\ all_jobs = unique_jobs
    /\ job_index = 1
    /\ attempt = 0
    /\ description = unique_jobs[1].description
    /\ analyzed_jobs = <<>>
    /\ report = <<>>
    /\ reports_written = 0
    /\ summaries = 0
    /\ requests = <<>>
    /\ dedupe_calls = 1
    /\ tries = <<>>
    /\ sleeps = 0
    /\ fetched = <<description>>
    /\ oracle_log = <<>>
    /\ oracle_answer = OracleNoContent

AnalyzeAny == AnalyzeWith(AllOracle)

SpecAnalyze == InitAnalyze /\ [][AnalyzeAny]_vars

(***************************************************************************)
(* Properties.                                                             *)
(***************************************************************************)
Last(seq) == seq[Len(seq)]

\* the positions of jobs that hold the first record with their URL
FirstPositions(jobs) ==
    {k \in 1..Len(jobs) : \A m \in 1..(k - 1) : jobs[m].url # jobs[k].url}

\* the n-th smallest member of a set of positions
NthOf(positions, n) ==
    CHOOSE k \in positions : Cardinality({m \in positions : m <= k}) = n

\* the records of jobs at the given positions, in the order of jobs
At(jobs, positions) ==
    [n \in 1..Cardinality(positions) |-> jobs[NthOf(positions, n)]]

\* C1: once remove_duplicates has returned, unique_jobs is exactly the records
\* of all_jobs that are the first with their URL, in the order of all_jobs; so
\* no two of its records have the same URL and it is no longer than all_jobs.
C1_FirstOccurrences ==
    dedupe_calls = 1 =>
        /\ unique_jobs = At(all_jobs, FirstPositions(all_jobs))
        /\ \A m, n \in 1..Len(unique_jobs) :
               unique_jobs[m].url = unique_jobs[n].url => m = n
        /\ Len(unique_jobs) <= Len(all_jobs)

\* an input with a repeated URL between two different ones has been deduplicated
C1_Witness ==
    /\ dedupe_calls = 1
    /\ Len(all_jobs) = 3
    /\ Len(unique_jobs) = 2
    /\ all_jobs[1].url = all_jobs[3].url
    /\ all_jobs[1] # all_jobs[3]

\* the oracle call failed, or its text did not parse even after the recovery,
\* or the object parsed lacks a required field
AnswerUnusable(oracle) ==
    \/ oracle.raises
    \/ ~oracle.has_content
    \/ parse_response(strip(oracle.content)).exc # NoExc
    \/ LET result == parse_response(strip(oracle.content)).value
       IN  \E k \in 1..Len(required_fields) : required_fields[k] \notin result.present

\* C2: when the oracle call raised, or its text did not parse as JSON even
\* after the code-fence recovery, or the parsed object lacks one of the five
\* fields, analyze_with_gpt returned, without raising, the fallback record:
\* score 0, german "No", "Analysis failed" twice, and the manual-review text.
C2_FallbackOnFailure ==
    (oracle_log # <<>> /\ AnswerUnusable(oracle_answer)) =>
        /\ Len(analyzed_jobs) = Len(oracle_log)
        /\ LET job == Last(oracle_log)
               row == Last(analyzed_jobs)
           IN  /\ row.match_score = JNum(0)
               /\ row.german_required = JStr("No")
               /\ row.key_matches = "Analysis failed"
               /\ row.missing_skills = "Analysis failed"
               /\ row.recommendation = JStr("Analysis failed - please review manually")
               /\ row.url = job.url
               /\ row.title = job.title
               /\ row.company = job.company
               /\ row.location = job.location
               /\ row.search_category = job.search_category

\* an answer that parses but lacks exactly one field has been analyzed
C2_Witness ==
    /\ oracle_log # <<>>
    /\ oracle_answer.has_content
    /\ parse_response(strip(oracle_answer.content)).exc = NoExc
    /\ parse_response(strip(oracle_answer.content)).value.present
           = Range(required_fields) \ {"missing_skills"}
    /\ Len(analyzed_jobs) = 1

AllFailed(outcomes) == \A k \in 1..Len(outcomes) : outcomes[k] = Failed

\* C3: extract_job_description never makes more than max_retries render
\* attempts, and when it returns after attempts that all failed, it has made
\* exactly max_retries of them and returns the sentinel to its caller.
C3_SentinelAfterMaxRetries ==
    /\ Len(tries) <= max_retries
    /\ (pc = "fetched" /\ AllFailed(tries)) =>
           /\ Len(tries) = max_retries
           /\ description = Sentinel
           /\ Last(fetched) = Sentinel
    /\ (AllFailed(tries) /\ Len(tries) = max_retries) => pc = "fetched"

\* the call has returned after max_retries failed attempts
C3_Witness ==
    /\ pc = "fetched"
    /\ Len(tries) = max_retries
    /\ AllFailed(tries)
    /\ description = Sentinel

\* the positions in requests of the requests for a category
RequestsFor(category) == {k \in 1..Len(requests) : requests[k].category = category}

\* C4: the n-th listing page requested for a category is its page n, no page
\* is requested for a category after one of its pages yielded zero records,
\* and no category has more than max_pages pages requested.
C4_Pagination ==
    \A category \in Range(search_categories) :
        LET mine == RequestsFor(category)
        IN  /\ Cardinality(mine) <= max_pages
            /\ \A n \in 1..Cardinality(mine) :
                   /\ requests[NthOf(mine, n)].page = n
                   /\ requests[NthOf(mine, n)].found = 0 => n = Cardinality(mine)

\* the first category stopped at its empty page 1 although max_pages is 2, and
\* the second category had both of its pages requested
C4_Witness ==
    /\ pc = "dedupe"
    /\ Len(requests) = 3
    /\ requests[1].found = 0
    /\ requests[2].found > 0
    /\ requests[3].page = 2

\* process_jobs has returned normally
RunEnded == pc \in {"returned", "exit"} /\ fatal_at = ""

\* the harvested records that are the first with their URL, in harvest order
Harvested == At(all_jobs, FirstPositions(all_jobs))

\* the harvested unique jobs whose description fetch did not skip them
Survivors ==
    At(Harvested, {n \in 1..Len(Harvested) : n <= Len(fetched) /\ fetched[n] \notin {"", None}})

\* C5: when the run has ended, the report holds one row for each harvested job
\* with a distinct URL that was not skipped, in first-seen order, and row k has
\* sequence number k.
C5_ReportRows ==
    RunEnded =>
        /\ Len(report) = Len(Survivors)
        /\ \A k \in 1..Len(report) :
               /\ report[k].S_No = k
               /\ report[k].job.url = Survivors[k].url
               /\ report[k].job.title = Survivors[k].title
               /\ report[k].job.search_category = Survivors[k].search_category

\* a run that harvested duplicates, skipped the first unique job and reported
\* the second
C5_Witness ==
    /\ pc = "exit"
    /\ Len(all_jobs) = 4
    /\ Len(unique_jobs) = 2
    /\ Len(report) = 1
    /\ report[1].job.url = unique_jobs[2].url

\* C6: the report file is written at most once; with zero analyzed records no
\* file is written and no summary is printed; a file is written only with at
\* least one analyzed record and after every unique job has been processed.
C6_NoEmptyReport ==
    /\ reports_written <= 1
    /\ summaries <= reports_written
    /\ analyzed_jobs = <<>> => (reports_written = 0 /\ summaries = 0 /\ report = <<>>)
    /\ reports_written = 1 =>
           /\ analyzed_jobs # <<>>
           /\ report # <<>>
           /\ job_index = Len(unique_jobs) + 1
           /\ Len(fetched) = Len(unique_jobs)

\* a run that found jobs, skipped every one of them, and ended without a report
C6_Witness ==
    /\ pc = "exit"
    /\ fatal_at = ""
    /\ Len(unique_jobs) = 2
    /\ analyzed_jobs = <<>>
    /\ reports_written = 0

\* C7: every analyzed record has an integer match_score in 0..100 and a
\* german_required of "Yes" or "No".
C7_ScoreAndGermanInRange ==
    \A k \in 1..Len(analyzed_jobs) :
        /\ analyzed_jobs[k].match_score.t = "num"
        /\ analyzed_jobs[k].match_score.n \in 0..100
        /\ analyzed_jobs[k].german_required \in {JStr("Yes"), JStr("No")}

\* every category has had a page requested and every unique job has had its
\* description fetch return
AllProcessed ==
    /\ \A category \in Range(search_categories) : RequestsFor(category) # {}
    /\ job_index = Len(unique_jobs) + 1
    /\ Len(fetched) = Len(unique_jobs)

\* the run is in the first pass, at the deduplication or in the second pass
InPasses == pc \in {"harvest", "dedupe", "fetch", "backoff", "fetched", "analyze"}

\* the passes still ahead: 3 in the first pass, 0 from the report phase on
PassesLeft ==
    CASE pc = "harvest" -> 3
      [] pc = "dedupe" -> 2
      [] pc \in {"fetch", "backoff", "fetched", "analyze"} -> 1
      [] OTHER -> 0

\* a bound on the steps left in the current pass
StepsLeft ==
    CASE pc = "harvest" ->
             (Len(search_categories) - category_index) * max_pages + (max_pages - page + 1)
      [] pc \in {"fetch", "backoff", "fetched", "analyze"} ->
             (Len(unique_jobs) - job_index) * (2 * max_retries + 3)
             + (CASE pc = "fetch" -> 2 * (max_retries - attempt) + 2
                  [] pc = "backoff" -> 2 * (max_retries - attempt) + 1
                  [] pc = "fetched" -> 2
                  [] pc = "analyze" -> 1)
      [] OTHER -> 0

\* C8: no exception leaves process_jobs during the first or the second pass,
\* whatever fails in them (a listing fetch, a description fetch, an oracle
\* call); every step of the passes leads on within the passes or to the report
\* phase and brings the report phase nearer, and the report phase is reached
\* with every category and every unique job processed.
C8_FailuresDoNotAbort ==
    /\ [](fatal_at \in {"", "startup", "save"})
    /\ [](pc = "report" => AllProcessed)
    /\ [][InPasses =>
             /\ pc' = "report" \/ InPasses'
             /\ \/ PassesLeft' < PassesLeft
                \/ PassesLeft' = PassesLeft /\ StepsLeft' < StepsLeft /\ StepsLeft' >= 0]_vars

\* the report phase is reached after a failed listing fetch in the first
\* category, a description fetch that gave up, and an oracle call that raised
C8_Witness ==
    /\ pc = "report"
    /\ \E k \in 1..Len(requests) :
           requests[k].failed /\ requests[k].category = search_categories[1]
    /\ Len(unique_jobs) = 2
    /\ fetched[1] = Sentinel
    /\ oracle_answer = OracleRaises
    /\ Len(oracle_log) = 2

\* the jobs the second pass has finished with
Finished == {k \in 1..Len(unique_jobs) : k < job_index /\ k <= Len(fetched)}

\* job k was handed to analyze_with_gpt, with the fetched value as description
Handed(k) ==
    \E m \in 1..Len(oracle_log) :
        /\ oracle_log[m].url = unique_jobs[k].url
        /\ oracle_log[m].description = fetched[k]

\* C9: a job the second pass has finished with was handed to analyze_with_gpt
\* exactly when its description fetch returned a non-empty value (the failure
\* sentinel included), and every record handed over has a description that is
\* neither None nor empty.
C9_AnalyzedIffDescription ==
    /\ \A k \in Finished : Handed(k) <=> fetched[k] \notin {"", None}
    /\ \A k \in Finished : fetched[k] = Sentinel => Handed(k)
    /\ \A m \in 1..Len(oracle_log) : oracle_log[m].description \notin {"", None}
    /\ Len(oracle_log) <= Cardinality(Finished) + 1

\* one job was skipped for its empty description, the other analyzed with the
\* sentinel as its description
C9_Witness ==
    /\ pc = "report"
    /\ fetched = <<"", Sentinel>>
    /\ Len(oracle_log) = 1
    /\ oracle_log[1].description = Sentinel
    /\ oracle_log[1].url = unique_jobs[2].url

\* C10: an attempt of extract_job_description that succeeds is its last one:
\* the call has then returned the text of that attempt, not the sentinel, so a
\* fetcher that first succeeds on attempt k costs exactly k attempts.
C10_SuccessOnKthAttempt ==
    \A k \in 1..Len(tries) :
        tries[k] # Failed =>
            /\ k = Len(tries)
            /\ k <= max_retries
            /\ pc = "fetched"
            /\ description = tries[k]
            /\ description # Sentinel
            /\ Last(fetched) = tries[k]

\* the call has returned the text of its last allowed attempt
C10_Witness ==
    /\ pc = "fetched"
    /\ Len(tries) = max_retries
    /\ tries[1] = Failed
    /\ tries[2] = Failed
    /\ tries[max_retries] = "We are hiring"
    /\ description = "We are hiring"

RECURSIVE Joined(_, _)
\* the first k entries of a list of strings, with "; " between them
Joined(a, k) ==
    IF k = 0 THEN ""
    ELSE IF k = 1 THEN a[1]
    ELSE Joined(a, k - 1) \o "; " \o a[k]

\* the last oracle call returned a text that parses, after the recovery if
\* need be, as an object with the five required fields
AnswerComplete ==
    /\ ~oracle_answer.raises
    /\ oracle_answer.has_content
    /\ parse_response(strip(oracle_answer.content)).exc = NoExc
    /\ parse_response(strip(oracle_answer.content)).value.kind = "object"
    /\ parse_response(strip(oracle_answer.content)).value.present = Range(required_fields)

\* the object of the last oracle answer
Answer == parse_response(strip(oracle_answer.content)).value

\* the record of the last call of analyze_with_gpt is the success record
SuccessRecord ==
    /\ Len(analyzed_jobs) = Len(oracle_log)
    /\ LET job == Last(oracle_log)
           row == Last(analyzed_jobs)
       IN  /\ Answer.key_matches.t = "arr"
           /\ Answer.missing_skills.t = "arr"
           /\ row.key_matches = Joined(Answer.key_matches.a, Len(Answer.key_matches.a))
           /\ row.missing_skills = Joined(Answer.missing_skills.a, Len(Answer.missing_skills.a))
           /\ row.match_score = Answer.match_score
           /\ row.german_required = Answer.german_required
           /\ row.recommendation = Answer.recommendation
           /\ row.search_category = job.search_category
           /\ row.title = job.title
           /\ row.company = job.company
           /\ row.location = job.location
           /\ row.url = job.url

C14_Idempotent ==
    dedupe_calls = 1 => remove_duplicates(unique_jobs) = unique_jobs

\* the result of deduplicating an input with a repeated URL
C14_Witness ==
    /\ dedupe_calls = 1
    /\ Len(all_jobs) = 3
    /\ Len(unique_jobs) = 2
    /\ all_jobs[1].url = all_jobs[2].url

\* C16: in a call of extract_job_description every failed attempt but the last
\* allowed one is followed by one backoff wait before the next attempt starts,
\* and no wait follows the last failed attempt or a successful attempt: when an
\* attempt starts there have been as many waits as attempts, and when the call
\* returns there has been one wait less than attempts.
C16_BackoffBetweenAttempts ==
    /\ pc = "fetch" => (sleeps = Len(tries) /\ AllFailed(tries) /\ attempt = Len(tries))
    /\ pc = "backoff" =>
           (sleeps = Len(tries) - 1 /\ AllFailed(tries) /\ Len(tries) < max_retries)
    /\ pc = "fetched" => sleeps = Len(tries) - 1

\* the call has returned the sentinel after max_retries - 1 waits
C16_Witness ==
    /\ pc = "fetched"
    /\ AllFailed(tries)
    /\ Len(tries) = max_retries
    /\ sleeps = max_retries - 1

\* C17: no two oracle calls of a run are for the same URL, and every call,
\* failed or not, has produced its one record at once: a call that raised is
\* not repeated and its record is the fallback.
C17_OneOracleCallPerUrl ==
    /\ \A m, n \in 1..Len(oracle_log) : oracle_log[m].url = oracle_log[n].url => m = n
    /\ Len(analyzed_jobs) = Len(oracle_log)
    /\ \A m \in 1..Len(oracle_log) : analyzed_jobs[m].url = oracle_log[m].url
    /\ (oracle_log # <<>> /\ oracle_answer.raises) =>
           Last(analyzed_jobs) = create_fallback_analysis(Last(oracle_log))

\* a run that harvested a URL twice has made two oracle calls, the last one failed
C17_Witness ==
    /\ pc = "report"
    /\ Len(all_jobs) > Len(unique_jobs)
    /\ Len(oracle_log) = 2
    /\ oracle_answer = OracleRaises

\* C12: no run ends with the browser handle held: at the exit of main the
\* handle was either never acquired (the start-up failed) or has been released,
\* after a normal return and after a fatal error alike.
C12_HandleReleased ==
    /\ pc = "exit" => driver # "held"
    /\ (pc = "exit" /\ fatal_at # "startup") => driver = "released"
    /\ (pc = "exit" /\ fatal_at = "startup") => driver = "none"
    /\ driver = "held" => pc \notin {"start", "exit"}

\* a run that acquired the handle and failed while saving has ended
C12_Witness ==
    /\ pc = "exit"
    /\ fatal_at = "save"
    /\ driver = "released"

\* C13: with the credential or the resume file missing the run aborts in the
\* start-up: no listing page is requested, no description fetched, no oracle
\* call made, no report written, and the browser is never started.
C13_AbortBeforePipeline ==
    (~credential \/ ~resume_exists) =>
        /\ pc \in {"start", "fatal", "exit"}
        /\ pc # "start" => fatal_at = "startup"
        /\ requests = <<>>
        /\ tries = <<>>
        /\ fetched = <<>>
        /\ oracle_log = <<>>
        /\ analyzed_jobs = <<>>
        /\ reports_written = 0
        /\ report = <<>>
        /\ driver = "none"

\* a run with the credential set and the resume file missing has ended
C13_Witness ==
    /\ credential
    /\ ~resume_exists
    /\ pc = "exit"
    /\ fatal_at = "startup"

\* a listing element with a title, a URL, a company and a location
WellFormed(e) ==
    /\ e.title # Missing
    /\ e.url \notin {Missing, NoHref}
    /\ e.company # Missing
    /\ e.location # Missing

\* the list scrape_page returned to the first page request of a run
Returned == IF Last(requests).found = 0 THEN <<>> ELSE all_jobs

\* C15 as stated: scrape_page returns the records of the well-formed elements
\* of the page, one each, in page order, and nothing for an element that lacks
\* its title, URL, company or location.
C15_WellFormedRecords ==
    (requests # <<>> /\ ~browser_page.failed) =>
        LET good == SelectSeq(browser_page.listings, WellFormed)
        IN  /\ Len(Returned) = Len(good)
            /\ \A k \in 1..Len(good) :
                   /\ Returned[k].title = good[k].title
                   /\ Returned[k].url = good[k].url
                   /\ Returned[k].company = good[k].company
                   /\ Returned[k].location = good[k].location
                   /\ Returned[k].search_category = Last(requests).category
                   /\ Returned[k].description = None

\* every category has had its listing pages requested up to an empty page or
\* to page max_pages
HarvestComplete ==
    \A category \in Range(search_categories) :
        LET mine == RequestsFor(category)
        IN  /\ mine # {}
            /\ \E k \in mine :
                   /\ \A m \in mine : m <= k
                   /\ requests[k].found = 0 \/ requests[k].page = max_pages

\* the external calls a step makes: a listing page, a description page, the oracle
ListingCall == Len(requests') = Len(requests) + 1
DescriptionCall == Len(tries') = Len(tries) + 1
OracleCall == Len(oracle_log') = Len(oracle_log) + 1

\* C18: remove_duplicates is called at most once, not before the listing pages
\* of every category have been requested, and over all records accumulated; no
\* description fetch or oracle call happens before that call and no listing
\* page is requested after it; and a step of the run makes at most one
\* external call.
C18_PhaseOrder ==
    /\ [](dedupe_calls \in {0, 1})
    /\ [](pc \in {"start", "harvest", "dedupe"} => dedupe_calls = 0)
    /\ []((tries # <<>> \/ fetched # <<>> \/ oracle_log # <<>>) => dedupe_calls = 1)
    /\ [](dedupe_calls = 1 => HarvestComplete)
    /\ [][dedupe_calls' # dedupe_calls =>
             /\ unique_jobs' = At(all_jobs, FirstPositions(all_jobs))
             /\ ~ListingCall /\ ~DescriptionCall /\ ~OracleCall]_vars
    /\ [][dedupe_calls = 1 => (requests' = requests /\ all_jobs' = all_jobs)]_vars
    /\ [][/\ requests' # requests => ListingCall
          /\ oracle_log' # oracle_log => OracleCall
          /\ ~(ListingCall /\ DescriptionCall)
          /\ ~(ListingCall /\ OracleCall)
          /\ ~(DescriptionCall /\ OracleCall)]_vars

\* a run has requested four listing pages, then fetched two descriptions and
\* called the oracle, and is about to write the report
C18_Witness ==
    /\ pc = "report"
    /\ Len(requests) = 4
    /\ dedupe_calls = 1
    /\ Len(fetched) = 2
    /\ Len(oracle_log) >= 1

\* a listing element without its title, anchor, company or location element
LacksSubElement(e) == Missing \in {e.title, e.url, e.company, e.location}

\* the step requested a listing page and the loop stays in its category, on
\* the next page
Paginates ==
    /\ pc' = "harvest"
    /\ category_index' = category_index
    /\ page' = page + 1

\* the records the step added to all_jobs
Added == SubSeq(all_jobs', Len(all_jobs) + 1, Len(all_jobs'))

\* C19: a listing page that yields records is followed by the next page of its
\* category (up to max_pages) whether or not their URLs were harvested before,
\* and its records are all accumulated; a page whose fetch failed or whose
\* listing elements are all malformed yields no record and ends its category.
C19_StopBeforeDedupe ==
    [][ListingCall =>
          LET request == Last(requests')
          IN  /\ request.found = Len(Added)
              /\ (request.found > 0 /\ page < max_pages) => Paginates
              /\ request.found = 0 => ~Paginates
              /\ browser_page'.failed => request.found = 0
              /\ (\A k \in 1..Len(browser_page'.listings) :
                     LacksSubElement(browser_page'.listings[k])) => request.found = 0]_vars

\* page 1 of the second category held only a URL harvested before, and the
\* run is about to request page 2 of that category
C19_Witness ==
    /\ pc = "harvest"
    /\ category_index = 2
    /\ page = 2
    /\ Len(all_jobs) >= 2
    /\ Last(requests).found = 1
    /\ \E n \in 1..(Len(all_jobs) - 1) : all_jobs[n].url = Last(all_jobs).url

\* the rows of the report for a URL
RowsFor(url) == {k \in 1..Len(report) : report[k].job.url = url}

\* the first record harvested with a URL
FirstHarvested(url) ==
    all_jobs[CHOOSE k \in 1..Len(all_jobs) :
                 /\ all_jobs[k].url = url
                 /\ \A m \in 1..(k - 1) : all_jobs[m].url # url]

\* the jobs handed to the oracle
AnalyzedUrls == {oracle_log[k].url : k \in 1..Len(oracle_log)}

\* row k of the report has the metadata of the first record harvested with
\* its URL
FirstOccurrenceRow(k) ==
    LET row == report[k].job
        first == FirstHarvested(row.url)
    IN  /\ row.search_category = first.search_category
        /\ row.title = first.title
        /\ row.company = first.company
        /\ row.location = first.location

\* C20 as stated: once the report is written, every harvested URL has exactly
\* one row in it, with the search_category, title, company and location of the
\* first record harvested with that URL.
C20_EveryUrlOnce ==
    reports_written = 1 =>
        \A n \in 1..Len(all_jobs) :
            /\ Cardinality(RowsFor(all_jobs[n].url)) = 1
            /\ \A k \in RowsFor(all_jobs[n].url) : FirstOccurrenceRow(k)

\* C20 as amended: once the report is written, every harvested URL has at most
\* one row in it, exactly one if its job was analyzed, and the row has the
\* search_category, title, company and location of the first record harvested
\* with that URL.
C20_FirstOccurrenceWins ==
    reports_written = 1 =>
        /\ \A k \in 1..Len(report) :
               \E n \in 1..Len(all_jobs) : all_jobs[n].url = report[k].job.url
        /\ \A n \in 1..Len(all_jobs) :
               /\ Cardinality(RowsFor(all_jobs[n].url)) =
                      (IF all_jobs[n].url \in AnalyzedUrls THEN 1 ELSE 0)
               /\ \A k \in RowsFor(all_jobs[n].url) : FirstOccurrenceRow(k)

\* the report of a run that harvested a posting under the first category and
\* again, with another title, company and location, under the second
C20_Witness ==
    /\ reports_written = 1
    /\ Len(all_jobs) = 2
    /\ all_jobs[1].url = all_jobs[2].url
    /\ all_jobs[1].search_category # all_jobs[2].search_category
    /\ all_jobs[1].title # all_jobs[2].title
    /\ all_jobs[1].company # all_jobs[2].company
    /\ all_jobs[1].location # all_jobs[2].location
    /\ Len(report) = 1
    /\ report[1].job.title = all_jobs[1].title

====
